---- MODULE Spec2Model ----
(***************************************************************************)
(* short-video-maker: the credential pool (agent/api_manager.py), the      *)
(* retried generative calls (agent/asset_generator.py, agent/planner.py)   *)
(* and the asset directory they write, as main.py's processes drive them.  *)
(*                                                                         *)
(* A process (one run of main) builds one ApiKeyManager and invokes the    *)
(* generative operations one after the other; an exception that leaves an  *)
(* operation reaches main's handler and ends the process.  The asset       *)
(* directory outlives the process; the pool does not.                      *)
(*                                                                         *)
(* Every service request is one step: the service's answer is the step's   *)
(* input, and the step runs the code from the request to the next request  *)
(* or to the operation's end.                                              *)
(***************************************************************************)
EXTENDS Integers, Sequences, FiniteSets, TLC

\* ------------------------------------------------------------------ bounds
MaxKeys == 3
MaxWords == 1
MaxPoolOps == 6
MaxProjects == 2
MaxPlans == 1

\* --------------------------------------------------------- program constants
TTS_CHANNELS == 1
TTS_SAMPWIDTH == 2
TTS_FRAMERATE == 24000
MUSIC_SAMPLE_RATE == 48000
MUSIC_CHANNELS == 2
MUSIC_SAMPLE_WIDTH == 2

VARIABLES
    nkeys,              \* len(self.keys) of the ApiKeyManager
    current_key_index,  \* ApiKeyManager.current_key_index
    client,             \* index of the key ApiKeyManager.client was built from
    pc,                 \* the process: "main" (between operations), "done", "failed"
    call,               \* the operation in progress (NoCall: none)
    last_o,             \* the answer the request of the latest step got (NoAnswer: no request)
    last_key,           \* the key this process's latest request was sent with (-1: none yet)
    transients,         \* the speech, image and plan requests of this process that came
                        \* back quota-exhausted or without content
    ret,                \* how the operation that ended in the latest step ended
    files,              \* the asset directory: path -> file
    first_ret,          \* path -> what the invocation that produced the file returned
    pool_ops,           \* pool operations a direct caller has made
    pool_ret,           \* the latest direct pool operation and its result
    projects,           \* the projects table: id -> row (NoRow: no such row)
    recent,             \* the ids of the rows, latest updated_at first
    disk,               \* id -> the artifacts in the project's asset directory
    run,                \* the run of main.py in progress: its arguments, position and locals
    eff,                \* the file-system effects and service requests of the latest step
    reply,              \* what the planning or the music service answered in the latest step
    truncated,          \* the ids whose final_video.mp4 is what an unfinished write left
    outdated,           \* the ids whose music.wav was sized for another final duration than
                        \* the speech files on disk now give
    calc,               \* a call of calculate_video_duration: its position and locals
    video               \* a call of create_video: its position, locals and clips

vars == <<nkeys, current_key_index, client, pc, call, last_o, last_key, transients,
          ret, files, first_ret, pool_ops, pool_ret,
          projects, recent, disk, run, eff, reply, truncated, outdated, calc, video>>

driverv == <<projects, recent, disk, run, eff, reply, truncated, outdated>>
calcv == <<calc, video>>
assetv == <<nkeys, current_key_index, client, pc, call, last_o, last_key, transients,
            ret, files, first_ret, pool_ops, pool_ret>>

poolv == <<nkeys, current_key_index, client>>
directv == <<pool_ops, pool_ret>>
reqv == <<last_o, last_key, transients>>

\* ------------------------------------------------------------------- paths
IntroPath == <<"intro_audio.wav", 0>>
WordPath(i) == <<"word.wav", i>>
BackgroundPath == <<"background.png", 0>>
MusicPath == <<"music.wav", 0>>
TtsPaths == {IntroPath} \cup {WordPath(i) : i \in 0..(MaxWords - 1)}
Paths == TtsPaths \cup {BackgroundPath, MusicPath}

NoFile == [exists |-> FALSE, bytes |-> 0]

\* mutant: the existence check is left out
exists_unchecked(path) == FALSE

\* os.path.exists(output_path)
exists(path) == files[path].exists

\* -------------------------------------------------------- service answers
\* What one generate_content request can come back with: an exception whose
\* text holds "429" and/or "RESOURCE_EXHAUSTED" or neither, or a response.
AudioBytes == {24000, 72000}
ImageBytes == {1000}
ApiErrors ==
    {[exc |-> TRUE, has429 |-> a, hasRE |-> b, payload |-> "none", bytes |-> 0] :
        a \in BOOLEAN, b \in BOOLEAN}
Response(p, n) ==
    [exc |-> FALSE, has429 |-> FALSE, hasRE |-> FALSE, payload |-> p, bytes |-> n]
\* speech: no candidates/parts; a part without inline data; inline data whose
\* data is None; audio bytes
TtsAnswers ==
    ApiErrors \cup {Response("empty", 0), Response("text", 0), Response("null", 0)}
        \cup {Response("audio", n) : n \in AudioBytes}
\* image: no candidates/parts; parts none of which holds inline data; an image
ImageAnswers ==
    ApiErrors \cup {Response("empty", 0), Response("text", 0)}
        \cup {Response("image", n) : n \in ImageBytes}
\* plan: response.parsed falsy; a plan whose language is not supported; a plan
PlanAnswers ==
    ApiErrors \cup {Response("unparsed", 0), Response("badlang", 0), Response("plan", 0)}
NoAnswer == [exc |-> FALSE, has429 |-> FALSE, hasRE |-> FALSE, payload |-> "none", bytes |-> 0]

\* --------------------------------------------------------- ApiKeyManager
\* mutant: one key more is counted than the pool holds
len_keys_off_by_one == nkeys + 1

\* len(self.keys)
len_keys == nkeys

\* _create_client's guard
create_client_raises(i) == i >= len_keys

\* mutant: the client is always built from the first key
create_client_key_first(i) == 0

\* the key the client that _create_client builds at index i is made from
create_client_key(i) == i

\* mutant: switch_key skips a key
next_key_index_skip(i) == i + 2

\* mutant: switch_key goes round the pool
next_key_index_wrap(i) == (i + 1) % len_keys

\* switch_key's increment
next_key_index(i) == i + 1

get_client == client

\* switch_key: the index moves first; _create_client then raises, leaving the
\* old client in place, or replaces the client
switch_key_raises == create_client_raises(next_key_index(current_key_index))
switch_key_client ==
    IF switch_key_raises THEN client
    ELSE create_client_key(next_key_index(current_key_index))

\* -------------------------------------------------------------- the calls
NoPath == <<"", 0>>
NoCall == [op |-> "none", path |-> NoPath, attempt |-> 0, reqs |-> 0,
           allq |-> TRUE, target |-> 0, buffer |-> 0, handle |-> 0]
NewCall(op, path) == [NoCall EXCEPT !.op = op, !.path = path]
NoRet == [op |-> "none", path |-> NoPath, status |-> "none", value |-> 0,
          retry |-> "none", cause |-> "none", payload |-> "none", bytes |-> 0,
          reqs |-> 0, allq |-> TRUE]

\* the exception a request's answer turns into inside the try block
ApiError(o) == [cge |-> FALSE, has429 |-> o.has429, hasRE |-> o.hasRE]
ContentGenerationError == [cge |-> TRUE, has429 |-> FALSE, hasRE |-> FALSE]

\* mutant: either marker alone counts as a quota error
is_quota_error_either(e) == e.has429 \/ e.hasRE

\* "429" in str(e) and "RESOURCE_EXHAUSTED" in str(e)
is_quota_error(e) == e.has429 /\ e.hasRE
is_content_error(e) == e.cge

max_attempts == len_keys
\* mutant: the pool is advanced after the last attempt as well
attempts_remain_always(attempt) == TRUE

\* `if attempt < max_attempts - 1`
attempts_remain(attempt) == attempt < max_attempts - 1

\* mutant: the validity check is inverted
response_invalid_inverted(o) == o.payload # "empty"

\* api_call_and_validate's check of the response
response_invalid(o) == o.payload = "empty"

\* _get_wav_duration, in milliseconds
wav_frames(bytes, channels, sampwidth) == bytes \div (channels * sampwidth)
tts_duration(file) ==
    (wav_frames(file.bytes, TTS_CHANNELS, TTS_SAMPWIDTH) * 1000) \div TTS_FRAMERATE

Wrote(path, n) == [files EXCEPT ![path] = [exists |-> TRUE, bytes |-> n]]

\* ------------------------------------------------- the projects table
ProjectIds == 1..MaxProjects
FinalVideoPath == <<"final_video.mp4", 0>>
Artifacts == Paths \cup {FinalVideoPath}

\* VideoPlan, as far as the driver reads it: the slug and len(plan.word_pairs);
\* NoPlan is the NULL of the plan_json column
NoPlan == [null |-> TRUE, project_slug |-> "none", nwords |-> 0]
Slugs == {"words", "tempo"}
Plans == [null : {FALSE}, project_slug : Slugs, nwords : 0..MaxWords]

\* A project name is a prefix and a timestamp.  One process runs at a time
\* and takes more than a second, so the timestamps of two rows differ: the
\* row's id stands for the timestamp.
TempName(id) == <<"temp", id>>
FinalName(plan, id) == <<plan.project_slug, id>>
NoName == <<"none", 0>>
TempDirectory == <<"temp", 0>>

NoRow == [status |-> "none", project_name |-> NoName,
          asset_directory |-> NoName, plan_json |-> NoPlan]

\* The position and the locals of a run of main.py.  pc is the line of main.py
\* the run is at ("idle": no run yet, "returned": main returned, "crashed": the
\* process was killed: main's locals are gone with the process); i counts the iterations of the loop the run is in.
NoRun == [pc |-> "idle", mode |-> "none", arg |-> NoName, project_id |-> 0,
          info |-> 0, plan |-> NoPlan, i |-> 0, raised |-> FALSE,
          trace |-> <<>>, pre |-> {}, pre_status |-> "none"]

NoCalc == [pc |-> "idle", intro |-> [frames |-> 0, rate |-> TTS_FRAMERATE], words |-> <<>>,
          i |-> 0, current_time |-> 0, result |-> -1]

\* no plan was parsed and no music asked for in the step
NoReply == [op |-> "none", result |-> "none", source_language |-> "none",
           target_language |-> "none"]

NoVideo == [pc |-> "idle", final_duration |-> -1, i |-> 0, current_time |-> 0,
           video_clips |-> {}, audio_clips |-> {}]

\* ---------------------------------------------------------------- Init
\* the pool, the asset directory and the database before the first run
ProgramInit ==
    /\ nkeys \in 1..MaxKeys
    /\ current_key_index = 0
    /\ client = create_client_key(0)
    /\ pc = "main"
    /\ call = NoCall
    /\ last_o = NoAnswer
    /\ last_key = -1
    /\ transients = 0
    /\ ret = NoRet
    /\ files = [p \in Paths |-> NoFile]
    /\ first_ret = [p \in Paths |-> -1]
    /\ pool_ops = 0
    /\ pool_ret = [op |-> "none", index |-> 0, raised |-> FALSE, handle |-> -1]
    /\ projects = [id \in ProjectIds |-> NoRow]
    /\ recent = <<>>
    /\ disk = [id \in ProjectIds |-> {}]
    /\ run = NoRun
    /\ eff = {}
    /\ reply = NoReply
    /\ truncated = {}
    /\ outdated = {}
    /\ video = NoVideo

Init == ProgramInit /\ calc = NoCalc

\* ------------------------------------------------ how an operation ends
\* How call c ended: the operation's status ("return", "raise") and value, and
\* for a retried call how the retry loop ended (retry), with the response it
\* returned (o) or the error it raised (cause).
Ended(c, status, retry, cause, value, o) ==
    [op |-> c.op, path |-> c.path, status |-> status, value |-> value,
     retry |-> retry, cause |-> cause,
     payload |-> IF retry = "return" THEN o.payload ELSE "none",
     bytes |-> IF retry = "return" THEN o.bytes ELSE 0,
     reqs |-> c.reqs, allq |-> c.allq]

\* the answer to a speech, image or plan request is an error with both quota
\* markers, a response without candidates or parts, a plan response that did
\* not parse, or an image response none of whose parts holds an image
TransientAnswer(op, o) ==
    /\ op \in {"tts", "image", "plan"}
    /\ \/ o.exc /\ o.has429 /\ o.hasRE
       \/ ~o.exc /\ o.payload \in {"empty", "unparsed"}
       \/ ~o.exc /\ op = "image" /\ o.payload = "text"

\* a service request goes out with the handle get_client returned, and o comes back
Request(o) ==
    /\ last_o' = o
    /\ last_key' = get_client
    /\ transients' = IF TransientAnswer(call.op, o) THEN transients + 1 ELSE transients

\* a step that sends nothing
NoRequest ==
    /\ last_o' = NoAnswer
    /\ UNCHANGED <<last_key, transients>>

\* "every attempt so far reported quota-exhaustion", as the service sent it
SentQuota(o) == o.exc /\ o.has429 /\ o.hasRE
Sent(c, o) == [c EXCEPT !.reqs = @ + 1, !.allq = @ /\ SentQuota(o)]

\* an exception leaves the operation: nothing between it and main catches it
Propagates(c, retry, cause, o) ==
    /\ pc' = "failed"
    /\ call' = NoCall
    /\ ret' = Ended(c, "raise", retry, cause, 0, o)

\* ------------------------------------------------------------ the driver
\* main: a new process over the same asset directory
main ==
    /\ pc \in {"done", "failed"}
    /\ pc' = "main"
    /\ current_key_index' = 0
    /\ client' = create_client_key(0)
    /\ call' = NoCall
    /\ last_o' = NoAnswer
    /\ last_key' = -1
    /\ transients' = 0
    /\ ret' = NoRet
    /\ UNCHANGED <<nkeys, files, first_ret, directv, driverv, calcv>>

\* main returns: the process ends without an error
main_return ==
    /\ pc = "main"
    /\ call = NoCall
    /\ pc' = "done"
    /\ ret' = NoRet
    /\ NoRequest
    /\ UNCHANGED <<poolv, call, files, first_ret, directv, driverv, calcv>>

\* _delete_asset: remove the file if it is there; an OSError is re-raised
delete_asset(path, oserror) ==
    /\ pc = "main"
    /\ call = NoCall
    /\ exists(path)
    /\ IF oserror
       THEN /\ pc' = "failed"
            /\ UNCHANGED <<files, first_ret>>
       ELSE /\ pc' = pc
            /\ files' = [files EXCEPT ![path] = NoFile]
            /\ first_ret' = [first_ret EXCEPT ![path] = -1]
    /\ ret' = NoRet
    /\ NoRequest
    /\ UNCHANGED <<poolv, call, directv, driverv, calcv>>

Invoke == pc = "main" /\ call = NoCall

\* ContentPlanner.generate_plan, up to its first request
generate_plan ==
    /\ Invoke
    /\ call' = NewCall("plan", NoPath)
    /\ ret' = NoRet
    /\ NoRequest
    /\ UNCHANGED <<poolv, pc, files, first_ret, directv, driverv, calcv>>

\* AssetGenerator._generate_tts_audio, up to its first request
generate_tts_audio(path) ==
    /\ Invoke
    /\ IF exists(path)
       THEN /\ call' = NoCall
            /\ ret' = [NoRet EXCEPT !.op = "tts", !.path = path, !.status = "skip",
                                    !.value = tts_duration(files[path])]
       ELSE /\ call' = NewCall("tts", path)
            /\ ret' = NoRet
    /\ NoRequest
    /\ UNCHANGED <<poolv, pc, files, first_ret, directv, driverv, calcv>>

\* AssetGenerator._generate_background_image, up to its first request
generate_background_image ==
    /\ Invoke
    /\ IF exists(BackgroundPath)
       THEN /\ call' = NoCall
            /\ ret' = [NoRet EXCEPT !.op = "image", !.path = BackgroundPath,
                                    !.status = "skip"]
       ELSE /\ call' = NewCall("image", BackgroundPath)
            /\ ret' = NoRet
    /\ NoRequest
    /\ UNCHANGED <<poolv, pc, files, first_ret, directv, driverv, calcv>>

\* --------------------------------------- speech and image: the retried call
\* what _generate_tts_audio / _generate_background_image do with the response
\* that _execute_with_retry returned
Returned(c, o) ==
    IF c.op = "tts"
    THEN IF o.payload = "audio"
         THEN /\ files' = Wrote(c.path, o.bytes)
              /\ first_ret' = [first_ret EXCEPT
                                 ![c.path] = tts_duration([exists |-> TRUE, bytes |-> o.bytes])]
              /\ pc' = pc
              /\ call' = NoCall
              /\ ret' = Ended(c, "return", "return", "none",
                              tts_duration([exists |-> TRUE, bytes |-> o.bytes]), o)
         ELSE IF o.payload = "null"
         \* wave.open has created the file when writeframes(None) raises
         THEN /\ files' = Wrote(c.path, 0)
              /\ UNCHANGED first_ret
              /\ Propagates(c, "return", "processing", o)
         \* parts[0].inline_data is None
         ELSE /\ UNCHANGED <<files, first_ret>>
              /\ Propagates(c, "return", "processing", o)
    ELSE IF o.payload = "image"
         THEN /\ files' = Wrote(c.path, o.bytes)
              /\ first_ret' = [first_ret EXCEPT ![c.path] = 0]
              /\ pc' = pc
              /\ call' = NoCall
              /\ ret' = Ended(c, "return", "return", "none", 0, o)
         \* no part holds inline data
         ELSE /\ UNCHANGED <<files, first_ret>>
              /\ Propagates(c, "return", "processing", o)

\* One iteration of _execute_with_retry's loop, and what follows a return.
execute_with_retry(o) ==
    /\ pc = "main"
    /\ call.op \in {"tts", "image"}
    /\ o \in (IF call.op = "tts" THEN TtsAnswers ELSE ImageAnswers)
    /\ Request(o)
    /\ IF ~o.exc /\ ~response_invalid(o)
       THEN /\ Returned(Sent(call, o), o)
            /\ UNCHANGED <<current_key_index, client>>
       ELSE LET e == IF o.exc THEN ApiError(o) ELSE ContentGenerationError IN
            IF is_quota_error(e) \/ is_content_error(e)
            THEN IF attempts_remain(call.attempt)
                 THEN /\ current_key_index' = next_key_index(current_key_index)
                      /\ client' = switch_key_client
                      /\ UNCHANGED <<files, first_ret>>
                      /\ IF switch_key_raises
                         THEN Propagates(Sent(call, o), "raise", "pool_exhausted", o)
                         ELSE IF call.attempt + 1 < max_attempts
                         THEN /\ call' = [Sent(call, o) EXCEPT !.attempt = @ + 1]
                              /\ pc' = pc
                              /\ ret' = NoRet
                         \* the loop runs out: the function returns None
                         ELSE Propagates(Sent(call, o), "return", "processing", NoAnswer)
                 ELSE /\ Propagates(Sent(call, o), "raise", "keys_exhausted", o)
                      /\ UNCHANGED <<current_key_index, client, files, first_ret>>
            ELSE /\ Propagates(Sent(call, o), "raise", "non_retriable", o)
                 /\ UNCHANGED <<current_key_index, client, files, first_ret>>
    /\ UNCHANGED <<nkeys, directv, driverv, calcv>>

\* ------------------------------------------------------------- the plan
planner_is_quota_error(e) == e.has429 /\ e.hasRE

\* response.parsed is falsy, or a language is not in TTS_SUPPORTED_LANGUAGES:
\* an Exception or a ValueError, raised inside the try block
PlanError == [cge |-> FALSE, has429 |-> FALSE, hasRE |-> FALSE]

\* One iteration of generate_plan's loop.
generate_plan_attempt(o) ==
    /\ pc = "main"
    /\ call.op = "plan"
    /\ o \in PlanAnswers
    /\ Request(o)
    /\ IF ~o.exc /\ o.payload = "plan"
       THEN /\ pc' = pc
            /\ call' = NoCall
            /\ ret' = Ended(Sent(call, o), "return", "return", "none", 0, o)
            /\ UNCHANGED <<current_key_index, client>>
       ELSE LET e == IF o.exc THEN ApiError(o) ELSE PlanError IN
            IF planner_is_quota_error(e)
            THEN /\ current_key_index' = next_key_index(current_key_index)
                 /\ client' = switch_key_client
                 /\ IF switch_key_raises
                    THEN Propagates(Sent(call, o), "raise", "pool_exhausted", o)
                    ELSE IF call.attempt + 1 < len_keys
                    THEN /\ call' = [Sent(call, o) EXCEPT !.attempt = @ + 1]
                         /\ pc' = pc
                         /\ ret' = NoRet
                    \* the loop runs out: line 93
                    ELSE Propagates(Sent(call, o), "raise", "all_quota", o)
            ELSE /\ Propagates(Sent(call, o), "raise", "plan_failed", o)
                 /\ UNCHANGED <<current_key_index, client>>
    /\ UNCHANGED <<nkeys, files, first_ret, directv, driverv, calcv>>

\* ----------------------------------------------------------------- music
MusicDurations == {500, 1000}
MusicChunks == {96000}

\* mutant: one channel is counted
target_bytes_mono(duration_ms) ==
    (duration_ms * MUSIC_SAMPLE_RATE * MUSIC_SAMPLE_WIDTH) \div 1000

\* int(duration_s * sample_rate * channels * sample_width), duration in ms
target_bytes(duration_ms) ==
    (duration_ms * MUSIC_SAMPLE_RATE * MUSIC_CHANNELS * MUSIC_SAMPLE_WIDTH) \div 1000

\* generate_music_asset's handler: the failure is logged, a file that is there
\* is removed, and the operation returns
MusicFailed(c, cause) ==
    /\ files' = [files EXCEPT ![c.path] = NoFile]
    /\ first_ret' = [first_ret EXCEPT ![c.path] = -1]
    /\ pc' = pc
    /\ call' = NoCall
    /\ ret' = Ended(c, "return", "none", cause, 0, NoAnswer)

\* the file _music_generation_logic writes once the stream is over
MusicSaved(c) ==
    /\ files' = Wrote(c.path, IF c.buffer < c.target THEN c.buffer ELSE c.target)
    /\ first_ret' = [first_ret EXCEPT ![c.path] = 0]
    /\ pc' = pc
    /\ call' = NoCall
    /\ ret' = Ended(c, "return", "none", "none", 0, NoAnswer)

\* generate_music_asset and _generate_music_with_timeout, up to the connection
generate_music_asset(duration_ms) ==
    /\ Invoke
    /\ IF exists(MusicPath)
       THEN /\ call' = NoCall
            /\ ret' = [NoRet EXCEPT !.op = "music", !.path = MusicPath,
                                    !.status = "skip"]
       ELSE /\ call' = [NewCall("music", MusicPath) EXCEPT
                            !.target = target_bytes(duration_ms)]
            /\ ret' = NoRet
    /\ NoRequest
    /\ UNCHANGED <<poolv, pc, files, first_ret, directv, driverv, calcv>>

\* _music_generation_logic: get_client, connect, prompts, config, play
music_connect(o) ==
    /\ pc = "main"
    /\ call.op = "music"
    /\ call.attempt = 0
    /\ o \in ApiErrors \cup {Response("connected", 0)}
    /\ Request(o)
    /\ IF o.exc
       THEN MusicFailed(Sent(call, o), "music_failed")
       ELSE /\ call' = [Sent(call, o) EXCEPT !.attempt = 1, !.handle = get_client]
            /\ ret' = NoRet
            /\ UNCHANGED <<pc, files, first_ret>>
    /\ UNCHANGED <<poolv, directv, driverv, calcv>>

\* one message of session.receive() that carries audio
music_receive(chunk) ==
    /\ pc = "main"
    /\ call.op = "music"
    /\ call.attempt = 1
    /\ LET c == [call EXCEPT !.buffer = @ + chunk] IN
       IF c.buffer >= c.target
       THEN MusicSaved(c)
       ELSE /\ call' = c
            /\ ret' = NoRet
            /\ UNCHANGED <<pc, files, first_ret>>
    /\ NoRequest
    /\ UNCHANGED <<poolv, directv, driverv, calcv>>

\* the stream ends before the target is reached
music_stream_end ==
    /\ pc = "main"
    /\ call.op = "music"
    /\ call.attempt = 1
    /\ MusicSaved(call)
    /\ NoRequest
    /\ UNCHANGED <<poolv, directv, driverv, calcv>>

\* the session raises while streaming
music_error ==
    /\ pc = "main"
    /\ call.op = "music"
    /\ call.attempt = 1
    /\ MusicFailed(call, "music_failed")
    /\ NoRequest
    /\ UNCHANGED <<poolv, directv, driverv, calcv>>

\* asyncio.wait_for gives up after duration_s + 60 seconds
music_timeout ==
    /\ pc = "main"
    /\ call.op = "music"
    /\ MusicFailed(call, "music_timeout")
    /\ NoRequest
    /\ UNCHANGED <<poolv, directv, driverv, calcv>>

\* ------------------------------------------------------ the specification
Next ==
    \/ main
    \/ main_return
    \/ \E path \in Paths, oserror \in BOOLEAN : delete_asset(path, oserror)
    \/ generate_plan
    \/ \E path \in TtsPaths : generate_tts_audio(path)
    \/ generate_background_image
    \/ \E d \in MusicDurations : generate_music_asset(d)
    \/ \E o \in TtsAnswers \cup ImageAnswers : execute_with_retry(o)
    \/ \E o \in PlanAnswers : generate_plan_attempt(o)
    \/ \E o \in ApiErrors \cup {Response("connected", 0)} : music_connect(o)
    \/ \E chunk \in MusicChunks : music_receive(chunk)
    \/ music_stream_end
    \/ music_error
    \/ music_timeout

Spec == Init /\ [][Next]_vars

\* ------------------------------------- the pool under a direct caller
\* ApiKeyManager.get_client, called on the pool as it stands
pool_get_client ==
    /\ pool_ops < MaxPoolOps
    /\ pool_ops' = pool_ops + 1
    /\ pool_ret' = [op |-> "get_client", index |-> current_key_index,
                    raised |-> FALSE, handle |-> get_client]
    /\ UNCHANGED <<poolv, pc, call, reqv, ret, files, first_ret, driverv, calcv>>

\* ApiKeyManager.switch_key, called on the pool as it stands
pool_switch_key ==
    /\ pool_ops < MaxPoolOps
    /\ pool_ops' = pool_ops + 1
    /\ current_key_index' = next_key_index(current_key_index)
    /\ client' = switch_key_client
    /\ pool_ret' = [op |-> "switch_key", index |-> next_key_index(current_key_index),
                    raised |-> switch_key_raises, handle |-> -1]
    /\ UNCHANGED <<nkeys, pc, call, reqv, ret, files, first_ret, driverv, calcv>>

PoolNext == pool_get_client \/ pool_switch_key

PoolSpec == Init /\ [][PoolNext]_vars

\* ====================================================== the runs of main.py
\* -------------------------------------------------------- agent/database.py
\* name LIKE 'temp_%': "temp", one more character, then anything
like_temp(name) == name[1] \in {"temp", "tempo"}

\* SET updated_at = datetime.now(): the row becomes the latest
Touched(id) == <<id>> \o SelectSeq(recent, LAMBDA x : x # id)

create_preliminary_project_id == Len(recent) + 1
create_preliminary_project_row(id) ==
    [status |-> "Initialized", project_name |-> TempName(id),
     asset_directory |-> TempDirectory, plan_json |-> NoPlan]

\* mutant: the UPDATE leaves the plan_json column out
save_plan_and_finalize_project_no_plan(row, project_name, asset_directory, plan) ==
    [row EXCEPT !.project_name = project_name,
                !.asset_directory = asset_directory]

save_plan_and_finalize_project(row, project_name, asset_directory, plan) ==
    [row EXCEPT !.project_name = project_name,
                !.asset_directory = asset_directory,
                !.plan_json = plan]

update_project_status(row, status) == [row EXCEPT !.status = status]

\* mutant: the query does not look at the plan_json column
plan_missing_never(row) == FALSE

\* `if not result[3]`: the plan_json column is NULL
plan_missing(row) == row.plan_json.null
\* mutant: every project that is not Completed passes the filter
status_is_failed_or_unfinished(row) == row.status # "Completed"

\* WHERE status = 'Failed'
status_is_failed(row) == row.status = "Failed"

\* what a get_* query returns: the row's id, or the error it raises
Selected(ids) ==
    IF ids = <<>> THEN [error |-> "FileNotFoundError", id |-> 0]
    ELSE IF plan_missing(projects[Head(ids)]) THEN [error |-> "ValueError", id |-> Head(ids)]
    ELSE [error |-> "none", id |-> Head(ids)]

get_project_by_name(project_name) ==
    Selected(SelectSeq(recent, LAMBDA id : projects[id].project_name = project_name))

get_last_failed_project ==
    Selected(SelectSeq(recent, LAMBDA id :
        status_is_failed(projects[id]) /\ ~like_temp(projects[id].project_name)))

get_last_project ==
    Selected(SelectSeq(recent, LAMBDA id : ~like_temp(projects[id].project_name)))

\* ------------------------------------------------------------------ main.py
ArgTrue == <<"True", 0>>
Modes == {"prompt", "resume", "regenerate", "regenerate_video",
          "regenerate_background", "regenerate_intro", "regenerate_music",
          "regenerate_words", "regenerate_word_0"}
\* the values an operator gives a flag: bare, the name of a row, a name of no row
Args == {ArgTrue, NoName} \cup {projects[id].project_name : id \in {x \in ProjectIds : projects[x] # NoRow}}

\* _load_project
load_project(arg_value, failed_only) ==
    IF arg_value = ArgTrue
    THEN IF failed_only THEN get_last_failed_project ELSE get_last_project
    ELSE get_project_by_name(arg_value)

\* the line a run starts at after main has parsed its arguments
EntryPc(mode) ==
    IF mode = "prompt" THEN "192" ELSE IF mode = "resume" THEN "210" ELSE "87"

\* the project_id the statement at hand passes to the database
ProjectId(r) == IF r.mode \in {"prompt", "resume"} THEN r.project_id ELSE r.info

\* the line run_project returns to
ReturnTo(mode) ==
    IF mode = "prompt" THEN "207" ELSE IF mode = "resume" THEN "218" ELSE "108"

\* mutant: the background image is not generated
CoreAssets_without_background(plan) ==
    <<IntroPath>> \o [i \in 1..plan.nwords |-> WordPath(i - 1)]

\* generate_core_assets: the intro, the words, then the background
CoreAssets(plan) ==
    <<IntroPath>> \o [i \in 1..plan.nwords |-> WordPath(i - 1)] \o <<BackgroundPath>>

\* handle_regeneration, --regenerate: the files it deletes, in order
RegenerateDeletes(plan) ==
    <<BackgroundPath, IntroPath>> \o [i \in 1..plan.nwords |-> WordPath(i - 1)]
        \o <<MusicPath, FinalVideoPath>>

\* the branch of handle_regeneration a mode takes
BranchPc(mode, plan) ==
    CASE mode = "regenerate" -> "100"
      [] mode = "regenerate_background" -> "116"
      [] mode = "regenerate_intro" -> "121"
      [] mode = "regenerate_words" -> IF plan.nwords > 0 THEN "127" ELSE "158"
      [] mode = "regenerate_word_0" -> IF plan.nwords > 0 THEN "135" ELSE "158"
      [] mode = "regenerate_music" -> "142"
      [] mode = "regenerate_video" -> "150"

\* the status update_project_status writes at a line
StatusLines == {"196", "25", "29", "33", "37", "207", "218", "108",
                "143", "145", "151", "153", "155"}
StatusAt(line) ==
    CASE line = "196" -> "Planning"
      [] line = "25" -> "Generating Core Assets"
      [] line = "29" -> "Calculating Duration"
      [] line = "33" -> "Generating Music"
      [] line = "37" -> "Composing Video"
      [] line \in {"207", "218", "108", "155"} -> "Completed"
      [] line = "143" -> "Calculating Duration for Music"
      [] line = "145" -> "Regenerating Music"
      [] line = "151" -> "Calculating Duration for Video"
      [] line = "153" -> "Regenerating Video"

\* the statement after the one at r.pc, when that one returns
Succ(r) ==
    CASE r.pc = "192" -> [r EXCEPT !.pc = "196"]
      [] r.pc = "196" -> [r EXCEPT !.pc = "198"]
      [] r.pc = "198" -> [r EXCEPT !.pc = "205"]
      [] r.pc = "205" -> [r EXCEPT !.pc = "17"]
      [] r.pc = "210" -> [r EXCEPT !.pc = "17"]
      [] r.pc = "87" -> [r EXCEPT !.pc = BranchPc(r.mode, r.plan), !.i = 0]
      [] r.pc = "100" -> IF r.i + 1 < Len(RegenerateDeletes(r.plan))
                         THEN [r EXCEPT !.i = @ + 1]
                         ELSE [r EXCEPT !.pc = "17", !.i = 0]
      [] r.pc = "25" -> [r EXCEPT !.pc = "26", !.i = 0]
      [] r.pc = "26" -> IF r.i + 1 < Len(CoreAssets(r.plan))
                        THEN [r EXCEPT !.i = @ + 1]
                        ELSE [r EXCEPT !.pc = "29", !.i = 0]
      [] r.pc = "29" -> [r EXCEPT !.pc = "30"]
      [] r.pc = "30" -> [r EXCEPT !.pc = "33"]
      [] r.pc = "33" -> [r EXCEPT !.pc = "34"]
      [] r.pc = "34" -> [r EXCEPT !.pc = "37"]
      [] r.pc = "37" -> [r EXCEPT !.pc = "38"]
      [] r.pc = "38" -> [r EXCEPT !.pc = ReturnTo(r.mode)]
      [] r.pc \in {"207", "218", "108"} -> [r EXCEPT !.pc = "224"]
      [] r.pc = "116" -> [r EXCEPT !.pc = "117"]
      [] r.pc = "117" -> [r EXCEPT !.pc = "158"]
      [] r.pc = "121" -> [r EXCEPT !.pc = "122"]
      [] r.pc = "122" -> [r EXCEPT !.pc = "158"]
      [] r.pc = "127" -> [r EXCEPT !.pc = "128"]
      [] r.pc = "128" -> IF r.i + 1 < r.plan.nwords
                         THEN [r EXCEPT !.pc = "127", !.i = @ + 1]
                         ELSE [r EXCEPT !.pc = "158", !.i = 0]
      [] r.pc = "135" -> [r EXCEPT !.pc = "136"]
      [] r.pc = "136" -> [r EXCEPT !.pc = "158"]
      [] r.pc = "142" -> [r EXCEPT !.pc = "143"]
      [] r.pc = "143" -> [r EXCEPT !.pc = "144"]
      [] r.pc = "144" -> [r EXCEPT !.pc = "145"]
      [] r.pc = "145" -> [r EXCEPT !.pc = "146"]
      [] r.pc = "146" -> [r EXCEPT !.pc = "158"]
      [] r.pc = "150" -> [r EXCEPT !.pc = "151"]
      [] r.pc = "151" -> [r EXCEPT !.pc = "152"]
      [] r.pc = "152" -> [r EXCEPT !.pc = "153"]
      [] r.pc = "153" -> [r EXCEPT !.pc = "154"]
      [] r.pc = "154" -> [r EXCEPT !.pc = "155"]
      [] r.pc = "155" -> [r EXCEPT !.pc = "158"]
      [] r.pc = "158" -> [r EXCEPT !.pc = "224"]
      [] r.pc = "224" -> [NoRun EXCEPT !.pc = "returned"]

\* an exception leaves the statement at r.pc: main's handler is next
Raised(r) == [r EXCEPT !.pc = "236", !.raised = TRUE]

\* the effects of a step
Requested(path) == [kind |-> "request", path |-> path]
Written(path) == [kind |-> "write", path |-> path]
Deleted(path) == [kind |-> "delete", path |-> path]
PlanPath == <<"plan", 0>>

\* ------------------------------------------------------- the steps of a run
Running == run.pc \notin {"idle", "returned", "crashed"}

\* main, lines 163-188: the arguments are parsed, the database and the pool built
main_parse_args(mode, arg) ==
    /\ ~Running
    /\ mode = "prompt" => (arg = ArgTrue /\ Len(recent) < MaxProjects)
    /\ run' = [NoRun EXCEPT !.pc = EntryPc(mode), !.mode = mode, !.arg = arg]
    /\ eff' = {}
    /\ reply' = NoReply
    /\ UNCHANGED truncated
    /\ UNCHANGED outdated
    /\ UNCHANGED <<projects, recent, disk, assetv, calcv>>

\* main, lines 192-194
main_create_preliminary_project ==
    /\ run.pc = "192"
    /\ LET id == create_preliminary_project_id IN
        /\ projects' = [projects EXCEPT ![id] = create_preliminary_project_row(id)]
        /\ recent' = <<id>> \o recent
        /\ run' = [Succ(run) EXCEPT !.project_id = id, !.trace = Append(@, "Initialized")]
    /\ eff' = {}
    /\ reply' = NoReply
    /\ UNCHANGED truncated
    /\ UNCHANGED outdated
    /\ UNCHANGED <<disk, assetv, calcv>>

\* db_manager.update_project_status(project_id, ...) at any of its lines
main_update_project_status ==
    /\ run.pc \in StatusLines
    /\ LET id == ProjectId(run) IN
        /\ projects' = [projects EXCEPT ![id] = update_project_status(@, StatusAt(run.pc))]
        /\ recent' = Touched(id)
    /\ run' = [Succ(run) EXCEPT !.trace = Append(@, StatusAt(run.pc))]
    /\ eff' = {}
    /\ reply' = NoReply
    /\ UNCHANGED truncated
    /\ UNCHANGED outdated
    /\ UNCHANGED <<disk, assetv, calcv>>

\* config.TTS_SUPPORTED_LANGUAGES
TTS_SUPPORTED_LANGUAGES ==
    {"arabic", "german", "english", "spanish", "french", "hindi", "indonesian",
     "italian", "japanese", "korean", "portuguese", "russian", "dutch", "polish",
     "thai", "turkish", "vietnamese", "romanian", "ukrainian", "bengali",
     "marathi", "tamil", "telugu"}

\* the language names a parsed plan may carry
PlanLanguageNames == {"Spanish", "english", "klingon"}

\* str.lower
lower(name) == IF name = "Spanish" THEN "spanish" ELSE name

\* mutant: only the source language is validated
languages_rejected_source_only(source_language, target_language) ==
    lower(source_language) \notin TTS_SUPPORTED_LANGUAGES

\* planner.py lines 68-74: a ValueError is raised for the source or the target
\* language
languages_rejected(source_language, target_language) ==
    \/ lower(source_language) \notin TTS_SUPPORTED_LANGUAGES
    \/ lower(target_language) \notin TTS_SUPPORTED_LANGUAGES

\* response.parsed: the languages of the plan the service answered with
Parsed(source_language, target_language) ==
    [op |-> "plan", result |-> "parsed", source_language |-> source_language,
     target_language |-> target_language]

\* main, line 198: planner.generate_plan returns a plan or raises; plan is
\* what the service answered with (NoPlan: an error or nothing parsed)
main_generate_plan(plan, source_language, target_language) ==
    /\ run.pc = "198"
    /\ LET returns == plan # NoPlan /\ ~languages_rejected(source_language, target_language) IN
        /\ returns => Cardinality({id \in ProjectIds : ~projects[id].plan_json.null}) < MaxPlans
        /\ run' = IF returns THEN [Succ(run) EXCEPT !.plan = plan] ELSE Raised(run)
    /\ eff' = {Requested(PlanPath)}
    /\ reply' = IF plan = NoPlan THEN NoReply ELSE Parsed(source_language, target_language)
    /\ UNCHANGED truncated
    /\ UNCHANGED outdated
    /\ UNCHANGED <<projects, recent, disk, assetv, calcv>>

\* main, lines 200-205: the directory is made and the project finalized
main_finalize ==
    /\ run.pc = "205"
    /\ LET id == run.project_id
           project_name == FinalName(run.plan, id) IN
        /\ projects' = [projects EXCEPT ![id] =
               save_plan_and_finalize_project(@, project_name, project_name, run.plan)]
        /\ recent' = Touched(id)
    /\ run' = Succ(run)
    /\ eff' = {}
    /\ reply' = NoReply
    /\ UNCHANGED truncated
    /\ UNCHANGED outdated
    /\ UNCHANGED <<disk, assetv, calcv>>

\* main line 210, handle_regeneration lines 87-96: the project is loaded (the
\* flag's value is not read again)
main_load_project ==
    /\ run.pc \in {"210", "87"}
    /\ LET info == load_project(run.arg, run.pc = "210") IN
        run' = IF info.error # "none" THEN Raised(run)
               ELSE LET r == [run EXCEPT !.arg = NoName,
                                         !.info = info.id,
                                         !.project_id = IF run.pc = "210" THEN info.id ELSE @,
                                         !.plan = projects[info.id].plan_json,
                                         !.pre = disk[info.id],
                                         !.pre_status = projects[info.id].status]
                    IN Succ(r)
    /\ eff' = {}
    /\ reply' = NoReply
    /\ UNCHANGED truncated
    /\ UNCHANGED outdated
    /\ UNCHANGED <<projects, recent, disk, assetv, calcv>>

\* mutant: the final video is taken to be there
final_video_exists_always(dir) == TRUE

\* os.path.exists(final_video_path)
final_video_exists(dir) == FinalVideoPath \in dir

\* run_project, lines 16-22: nothing to do when the final video is there
run_project ==
    /\ run.pc = "17"
    /\ run' = IF final_video_exists(disk[ProjectId(run)])
              THEN [run EXCEPT !.pc = ReturnTo(run.mode)]
              ELSE [run EXCEPT !.pc = "25"]
    /\ eff' = {}
    /\ reply' = NoReply
    /\ UNCHANGED truncated
    /\ UNCHANGED outdated
    /\ UNCHANGED <<projects, recent, disk, assetv, calcv>>

\* _delete_asset at any of its lines
DeleteLines == {"100", "116", "121", "127", "135", "142", "150"}
DeleteAt(r) ==
    CASE r.pc = "100" -> RegenerateDeletes(r.plan)[r.i + 1]
      [] r.pc = "116" -> BackgroundPath
      [] r.pc = "121" -> IntroPath
      [] r.pc = "127" -> WordPath(r.i)
      [] r.pc = "135" -> WordPath(0)
      [] r.pc = "142" -> MusicPath
      [] r.pc = "150" -> FinalVideoPath

main_delete_asset(oserror) ==
    /\ run.pc \in DeleteLines
    /\ LET id == run.info
           path == DeleteAt(run) IN
        /\ oserror => path \in disk[id]
        /\ IF path \notin disk[id]
           THEN /\ run' = Succ(run)
                /\ eff' = {}
                /\ UNCHANGED disk
           ELSE IF oserror
           THEN /\ run' = Raised(run)
                /\ eff' = {}
                /\ UNCHANGED disk
           ELSE /\ run' = Succ(run)
                /\ eff' = {Deleted(path)}
                /\ disk' = [disk EXCEPT ![id] = @ \ {path}]
    /\ reply' = NoReply
    /\ truncated' = {x \in truncated : FinalVideoPath \in disk'[x]}
    /\ outdated' = {x \in outdated : MusicPath \in disk'[x]}
    /\ UNCHANGED <<projects, recent, assetv, calcv>>

\* mutant: the asset is generated whether or not its file is there
asset_exists_unchecked(dir, path) == FALSE

\* os.path.exists(output_path), the first thing an asset operation does
asset_exists(dir, path) == path \in dir

\* _generate_tts_audio and _generate_background_image at any of their lines
AssetLines == {"26", "117", "122", "128", "136"}
AssetAt(r) ==
    CASE r.pc = "26" -> CoreAssets(r.plan)[r.i + 1]
      [] r.pc = "117" -> BackgroundPath
      [] r.pc = "122" -> IntroPath
      [] r.pc = "128" -> WordPath(r.i)
      [] r.pc = "136" -> WordPath(0)
AssetOutcomes(path) ==
    IF path \in TtsPaths THEN {"written", "raised", "raised_partial"}
    ELSE {"written", "raised"}

\* resized: the speech the service returned is of a length that gives another
\* final duration than the one the music on disk was generated for
main_generate_asset(outcome, resized) ==
    /\ run.pc \in AssetLines
    /\ LET id == ProjectId(run)
           path == AssetAt(run)
           written == ~asset_exists(disk[id], path) /\ outcome # "raised" IN
        /\ outcome \in AssetOutcomes(path)
        /\ resized => (written /\ path \in TtsPaths /\ MusicPath \in disk[id])
        /\ outdated' = IF resized THEN outdated \cup {id} ELSE outdated
        /\ IF asset_exists(disk[id], path)
           THEN /\ outcome = "written"
                /\ run' = Succ(run)
                /\ eff' = {}
                /\ UNCHANGED disk
           ELSE /\ run' = IF outcome = "written" THEN Succ(run) ELSE Raised(run)
                /\ eff' = {Requested(path)} \cup
                          (IF outcome = "raised" THEN {} ELSE {Written(path)})
                /\ disk' = IF outcome = "raised" THEN disk
                           ELSE [disk EXCEPT ![id] = @ \cup {path}]
    /\ reply' = NoReply
    /\ UNCHANGED truncated
    /\ UNCHANGED <<projects, recent, assetv, calcv>>

\* what a step heard: the outcome of the call it made
Answered(op, result) == [NoReply EXCEPT !.op = op, !.result = result]

\* composer.calculate_video_duration at any of its lines: it raises when a
\* speech file of the plan is missing
CalcLines == {"30", "144", "152"}
SpeechPaths(plan) == {IntroPath} \cup {WordPath(i) : i \in 0..(plan.nwords - 1)}

\* mutant: a file wave cannot read counts as silence
calculation_raises_missing_only(missing, readable) == missing

\* composer.py lines 24-32, 68-71: wave.open raises FileNotFoundError for a
\* missing file and wave.Error or EOFError for one it cannot read; either
\* leaves calculate_video_duration as an Exception
calculation_raises(missing, readable) == missing \/ ~readable

\* readable: wave can read every speech file that is there
main_calculate_video_duration(readable) ==
    /\ run.pc \in CalcLines
    /\ LET missing == ~(SpeechPaths(run.plan) \subseteq disk[ProjectId(run)]) IN
        /\ run' = IF calculation_raises(missing, readable) THEN Raised(run) ELSE Succ(run)
        /\ reply' = Answered("calc", IF missing THEN "missing"
                                     ELSE IF readable THEN "read" ELSE "unreadable")
    /\ eff' = {}
    /\ UNCHANGED truncated
    /\ UNCHANGED outdated
    /\ UNCHANGED <<projects, recent, disk, assetv, calcv>>

\* asset_gen.generate_music_asset at any of its lines: a failure is logged
\* and the run goes on without music
MusicLines == {"34", "146"}
\* how generate_music_asset can end: the file is written; the generation fails
\* with no file on disk (one that was written in part is removed); the write
\* fails and os.remove fails too, which is logged (lines 78-81)
MusicOutcomes == {"written", "failed", "failed_left"}

\* mutant: the file a failed write leaves is never removed
music_file_after_never_removed(outcome) == outcome \in {"written", "failed", "failed_left"}

\* is music.wav on disk when generate_music_asset returns
music_file_after(outcome) == outcome \in {"written", "failed_left"}

main_generate_music_asset(outcome) ==
    /\ run.pc \in MusicLines
    /\ run' = Succ(run)
    /\ LET id == ProjectId(run) IN
        IF asset_exists(disk[id], MusicPath)
        THEN /\ outcome = "written"
             /\ eff' = {}
             /\ reply' = Answered("music", "skipped")
             /\ UNCHANGED disk
        ELSE /\ eff' = {Requested(MusicPath)} \cup
                       (IF music_file_after(outcome) THEN {Written(MusicPath)} ELSE {})
             /\ reply' = Answered("music", outcome)
             /\ disk' = IF music_file_after(outcome)
                        THEN [disk EXCEPT ![id] = @ \cup {MusicPath}] ELSE disk
    /\ UNCHANGED truncated
    /\ UNCHANGED outdated
    /\ UNCHANGED <<projects, recent, assetv, calcv>>

\* composer.create_video at any of its lines: it reads the background and the
\* speech files and writes the final video; music is optional
VideoLines == {"38", "154"}
main_create_video(outcome) ==
    /\ run.pc \in VideoLines
    /\ LET id == ProjectId(run) IN
        IF ~((SpeechPaths(run.plan) \cup {BackgroundPath}) \subseteq disk[id])
        THEN /\ outcome = "raised"
             /\ run' = Raised(run)
             /\ eff' = {}
             /\ UNCHANGED <<disk, truncated>>
        ELSE /\ run' = IF outcome = "written" THEN Succ(run) ELSE Raised(run)
             /\ eff' = IF outcome = "raised" THEN {} ELSE {Written(FinalVideoPath)}
             /\ disk' = IF outcome = "raised" THEN disk
                        ELSE [disk EXCEPT ![id] = @ \cup {FinalVideoPath}]
             \* write_videofile ran to its end, or stopped part-way
             /\ truncated' = CASE outcome = "written" -> truncated \ {id}
                                [] outcome = "raised_partial" -> truncated \cup {id}
                                [] outcome = "raised" -> truncated
    /\ reply' = NoReply
    /\ UNCHANGED outdated
    /\ UNCHANGED <<projects, recent, assetv, calcv>>

\* handle_regeneration returns (line 158) and main returns (lines 223-234)
main_end ==
    /\ run.pc \in {"158", "224"}
    /\ run' = Succ(run)
    /\ eff' = {}
    /\ reply' = NoReply
    /\ UNCHANGED truncated
    /\ UNCHANGED outdated
    /\ UNCHANGED <<projects, recent, disk, assetv, calcv>>

\* mutant: the handler never marks the project
handler_knows_project_never(r) == FALSE

\* mutant: the handler marks the project a regeneration loaded as well
handler_knows_project_or_loaded(r) == r.project_id # 0 \/ r.info # 0

\* `if project_id and db_manager`: main's own project_id, set in the prompt
\* and resume branches only
handler_knows_project(r) == r.project_id # 0

\* main's handler, lines 236-244: the project is marked Failed when main
\* knows its id, and main returns
main_except ==
    /\ run.pc = "236"
    /\ IF handler_knows_project(run)
       THEN /\ projects' = [projects EXCEPT ![run.project_id] = update_project_status(@, "Failed")]
            /\ recent' = Touched(run.project_id)
            /\ run' = [NoRun EXCEPT !.pc = "returned", !.raised = TRUE]
       ELSE /\ run' = [NoRun EXCEPT !.pc = "returned", !.raised = TRUE]
            /\ UNCHANGED <<projects, recent>>
    /\ eff' = {}
    /\ reply' = NoReply
    /\ UNCHANGED truncated
    /\ UNCHANGED outdated
    /\ UNCHANGED <<disk, assetv, calcv>>

\* the process is killed where it stands
process_killed ==
    /\ Running
    /\ run' = [NoRun EXCEPT !.pc = "crashed"]
    /\ eff' = {}
    /\ reply' = NoReply
    /\ UNCHANGED truncated
    /\ UNCHANGED outdated
    /\ UNCHANGED <<projects, recent, disk, assetv, calcv>>

DriverNext ==
    \/ \E mode \in Modes, arg \in Args : main_parse_args(mode, arg)
    \/ main_create_preliminary_project
    \/ main_update_project_status
    \/ \E plan \in Plans \cup {NoPlan}, source_language \in PlanLanguageNames,
          target_language \in PlanLanguageNames :
            main_generate_plan(plan, source_language, target_language)
    \/ main_finalize
    \/ main_load_project
    \/ run_project
    \/ \E oserror \in BOOLEAN : main_delete_asset(oserror)
    \/ \E outcome \in {"written", "raised", "raised_partial"}, resized \in BOOLEAN :
          main_generate_asset(outcome, resized)
    \/ \E readable \in BOOLEAN : main_calculate_video_duration(readable)
    \/ \E outcome \in MusicOutcomes : main_generate_music_asset(outcome)
    \/ \E outcome \in {"written", "raised", "raised_partial"} : main_create_video(outcome)
    \/ main_end
    \/ main_except
    \/ process_killed

\* the runs do not depend on how many keys the pool holds
DriverInit == Init /\ nkeys = 1

DriverSpec == DriverInit /\ [][DriverNext]_vars

\* ------------------------------------------- new-prompt and resume runs alone
\* main is started with --prompt or --resume only
main_parse_args_run(mode, arg) ==
    /\ mode \in {"prompt", "resume"}
    /\ main_parse_args(mode, arg)

\* a statement of the run in progress is executed: each returns or raises
RunStep ==
    \/ main_create_preliminary_project
    \/ main_update_project_status
    \/ \E plan \in Plans \cup {NoPlan}, source_language \in PlanLanguageNames,
          target_language \in PlanLanguageNames :
            main_generate_plan(plan, source_language, target_language)
    \/ main_finalize
    \/ main_load_project
    \/ run_project
    \/ \E outcome \in {"written", "raised", "raised_partial"}, resized \in BOOLEAN :
          main_generate_asset(outcome, resized)
    \/ \E readable \in BOOLEAN : main_calculate_video_duration(readable)
    \/ \E outcome \in MusicOutcomes : main_generate_music_asset(outcome)
    \/ \E outcome \in {"written", "raised", "raised_partial"} : main_create_video(outcome)
    \/ main_end
    \/ main_except

RunNext ==
    \/ \E mode \in Modes, arg \in Args : main_parse_args_run(mode, arg)
    \/ RunStep
    \/ process_killed

\* every call the run makes returns or raises, so the statement at hand is
\* executed in the end; when the process is killed is up to the operator
RunSpec == DriverInit /\ [][RunNext]_vars /\ WF_vars(RunStep)

\* ================================================================ claims
\* The outcome classes of a request, as the service sent them.
RetriedOps == {"tts", "image", "plan"}
QuotaExhausted(o) == o.exc /\ o.has429 /\ o.hasRE
EmptyContent(o) == ~o.exc /\ o.payload \in {"empty", "unparsed"}
OtherFailure(op, o) ==
    \/ o.exc /\ ~(o.has429 /\ o.hasRE)
    \/ op = "plan" /\ ~o.exc /\ o.payload = "badlang"
SuccessWithPayload(op, o) ==
    /\ ~o.exc
    /\ IF op = "plan" THEN o.payload = "plan" ELSE o.payload \in {"audio", "image", "text", "null"}
\* the step sent a request of the call in progress
RequestStep == last_o' # NoAnswer

\* C1: a retried call (speech, image or plan) in which every attempt reports
\* quota-exhaustion makes at most N = number of credentials requests, whatever
\* the pool index it started at, and ends with an error: while such a call is
\* still running it has made fewer than N requests, and once it has ended it
\* made at most N and raised.
C1_AtMostNRequests ==
    /\ (call.op \in RetriedOps /\ call.allq) => call.reqs < nkeys
    /\ (ret.op \in RetriedOps /\ ret.allq /\ ret.reqs >= 1) =>
           (ret.reqs <= nkeys /\ ret.status = "raise")

C1_Witness ==
    /\ nkeys = MaxKeys
    /\ ret.op = "tts"
    /\ ret.allq
    /\ ret.reqs = nkeys
    /\ ret.status = "raise"

\* C2: when the first attempt of a retried call fails with an error that is
\* neither quota-exhausted nor empty-content, the call ends in that step with an
\* error (so there is no second request) and the pool is as it was: index and
\* client unchanged.
C2_OtherFailureIsImmediate ==
    [][(call.op \in RetriedOps /\ call.attempt = 0 /\ RequestStep
            /\ OtherFailure(call.op, last_o'))
        => (/\ call' = NoCall
            /\ ret'.status = "raise"
            /\ ret'.reqs = 1
            /\ current_key_index' = current_key_index
            /\ client' = client)]_vars

C2_Witness ==
    /\ nkeys >= 2
    /\ ret.op = "tts"
    /\ ret.status = "raise"
    /\ ret.reqs = 1
    /\ last_o.exc
    /\ last_o.has429
    /\ ~last_o.hasRE
    /\ current_key_index = 0

\* C3: in a speech or image call, an attempt that is quota-exhausted or
\* empty-content with attempts remaining advances the index by exactly one; if a
\* credential is left the call goes on to its next attempt with the client built
\* from the new index, otherwise the call ends there with the pool-exhausted
\* error; and every request of such a call is sent with the credential at the
\* current index.
C3_TransientAdvancesByOne ==
    [][(call.op \in {"tts", "image"} /\ RequestStep) =>
        /\ last_key' = current_key_index
        /\ ((QuotaExhausted(last_o') \/ EmptyContent(last_o')) /\ call.attempt < nkeys - 1) =>
            /\ current_key_index' = current_key_index + 1
            /\ IF current_key_index + 1 < nkeys
               THEN /\ call'.op = call.op
                    /\ call'.attempt = call.attempt + 1
                    /\ client' = current_key_index + 1
               ELSE /\ call' = NoCall
                    /\ ret'.status = "raise"
                    /\ ret'.cause = "pool_exhausted"]_vars

C3_Witness ==
    /\ call.op = "image"
    /\ call.attempt = 2
    /\ EmptyContent(last_o)
    /\ current_key_index = 2
    /\ client = 2

\* C4: for the plan call an empty-content answer (a response whose parsed plan
\* is missing) is transient like quota-exhaustion: while a credential is left the
\* pool is advanced and the plan request is retried.
C4_PlanEmptyContentRetried ==
    [][(call.op = "plan" /\ RequestStep /\ EmptyContent(last_o')
            /\ current_key_index + 1 < nkeys)
        => (/\ current_key_index' = current_key_index + 1
            /\ call'.op = "plan")]_vars

\* C5: an attempt of a retried call that succeeds with a non-empty payload makes
\* the retry loop return that payload in the same step: the call makes no further
\* request, and index and client are what they were when the attempt started.
C5_SuccessReturnsAtOnce ==
    [][(call.op \in RetriedOps /\ RequestStep /\ SuccessWithPayload(call.op, last_o'))
        => (/\ call' = NoCall
            /\ ret'.retry = "return"
            /\ ret'.payload = last_o'.payload
            /\ ret'.bytes = last_o'.bytes
            /\ ret'.reqs = call.reqs + 1
            /\ current_key_index' = current_key_index
            /\ client' = client)]_vars

C5_Witness ==
    /\ ret.op = "tts"
    /\ ret.status = "return"
    /\ ret.retry = "return"
    /\ ret.payload = "audio"
    /\ ret.reqs = 2
    /\ current_key_index = 1

\* C6: after any sequence of get_client and switch_key operations on the pool the
\* index is at most the number of credentials.
C6_IndexAtMostLength == current_key_index <= nkeys

\* C7: get_client on an exhausted pool (index >= number of credentials) fails: it
\* returns no handle.
C7_ExhaustedGetClientFails ==
    (pool_ret.op = "get_client" /\ pool_ret.index >= nkeys) => pool_ret.raised

\* C8: within one process the index never decreases, the key of each request is
\* at least the key of the request before it, and no request uses a key below the
\* current index, that is a key the pool has rotated away from.
C8_KeysLeftToRight ==
    [][pc = "main" =>
        /\ current_key_index' >= current_key_index
        /\ RequestStep =>
            /\ last_key' >= last_key
            /\ last_key' >= current_key_index]_vars

C8_Witness ==
    /\ pc = "main"
    /\ call.op = "none"
    /\ ret.status = "return"
    /\ ret.reqs = 1
    /\ last_o # NoAnswer
    /\ last_key = 2

\* C9: while the pool is not exhausted the client is the one built from the
\* credential at the current index, so after an advance every reader, the music
\* session included, holds that handle, and every request goes out with it.
C9_ReadersSeeCurrent ==
    /\ [](current_key_index < nkeys =>
            /\ client = current_key_index
            /\ (call.op = "music" /\ call.attempt = 1) => call.handle = current_key_index)
    /\ [][(RequestStep /\ current_key_index < nkeys)
            => last_key' = current_key_index]_vars

C9_Witness ==
    /\ call.op = "music"
    /\ call.attempt = 1
    /\ call.handle = 1
    /\ current_key_index = 1

ResumedAtMusic ==
    /\ run.mode = "resume"
    /\ run.info # 0
    /\ run.pre_status = "Generating Music"
    /\ (SpeechPaths(run.plan) \cup {BackgroundPath}) \subseteq run.pre

\* C11: resuming a project whose persisted phase is Generating Music and whose
\* intro, word and background files exist makes service requests for music
\* only, writes only the music and the final video file, and deletes or
\* rewrites no file that was there when the project was loaded.
C11_ResumeAtMusicTouchesMusicAndVideoOnly ==
    [][ResumedAtMusic =>
        /\ eff' \subseteq {Requested(MusicPath), Written(MusicPath), Written(FinalVideoPath)}
        /\ \A e \in eff' : e.kind \in {"write", "delete"} => e.path \notin run.pre
        /\ run.pre \subseteq disk'[run.info]]_vars

C11_Witness ==
    /\ ResumedAtMusic
    /\ run.plan.nwords = MaxWords
    /\ run.pre = SpeechPaths(run.plan) \cup {BackgroundPath}
    /\ eff = {Written(FinalVideoPath)}
    /\ disk[run.info] = Artifacts

\* ---------------------------------------------------------------- C12
\* the step is main's handler running to its end
HandlerStep == run.pc = "236" /\ run'.pc = "returned"

\* C12: when an unhandled error ends a run on a project (the one a new-prompt
\* run created, or the one a resume or a regeneration loaded), the project's
\* persisted status is Failed when the run ends.
C12_ErrorMarksProjectFailed ==
    [][(HandlerStep /\ ProjectId(run) # 0) =>
        projects'[ProjectId(run)].status = "Failed"]_vars

\* ---------------------------------------------------------------- C13
\* C13: a run in which an error reached main's handler does not end with main
\* returning normally: the handler re-raises the error to main's caller.
C13_FailedRunDoesNotReturn == run.raised => run.pc # "returned"

\* ---------------------------------------------------------------- C14
PhaseOrder == <<"Initialized", "Planning", "Generating Core Assets",
                "Calculating Duration", "Generating Music", "Composing Video",
                "Completed">>
NonTerminalPhases == {PhaseOrder[k] : k \in 1..(Len(PhaseOrder) - 1)}

RestingStatuses == {"Initialized", "Completed", "Failed"}
RunEntered(r) == {r.trace[k] : k \in 1..Len(r.trace)} \ RestingStatuses
StepPhases(r, e) ==
    IF r.mode \in {"prompt", "resume", "regenerate"} /\ e.kind # "delete"
    THEN CASE e.path = PlanPath -> {"Planning"}
           [] e.path \in TtsPaths \cup {BackgroundPath} -> {"Generating Core Assets"}
           [] e.path = MusicPath -> {"Generating Music"}
           [] e.path = FinalVideoPath -> {"Composing Video"}
    ELSE RunEntered(r)

\* C15: in every run mode, when a step creates or deletes an artifact or makes
\* a service request, the project's persisted status already names the phase
\* of that step's work and was written by this run before the step.
C15_StatusWrittenBeforeWork ==
    [][\A e \in eff' :
          /\ ProjectId(run) # 0
          /\ run.trace # <<>>
          /\ projects[ProjectId(run)].status = run.trace[Len(run.trace)]
          /\ projects[ProjectId(run)].status \in StepPhases(run, e)]_vars

\* ---------------------------------------------------------------- C16
RegenerationModes == Modes \ {"prompt", "resume"}

\* C16: when a regeneration operation (all, video, background, intro, music,
\* words, word 0) has completed successfully, the run has persisted a
\* transient phase and, after it, Completed, which is the project's status.
C16_RegenerationEndsCompleted ==
    (run.pc = "224" /\ run.mode \in RegenerationModes) =>
        /\ RunEntered(run) # {}
        /\ run.trace[Len(run.trace)] = "Completed"
        /\ projects[run.info].status = "Completed"

\* ---------------------------------------------------------------- C17
\* a step of a resume run that is not the process being killed
ResumeStepAt(line) == run.mode = "resume" /\ run.pc = line /\ run'.pc # "crashed"
Resumable(id) ==
    /\ projects[id] # NoRow
    /\ projects[id].status # "Completed"
    /\ ~projects[id].plan_json.null
\* C17: in a resume run every project whose phase is not Completed
\* and whose plan is not null is loaded, when the flag names it and when the
\* flag is bare, and run_project then enters the first asset phase.
C17_AnyUnfinishedProjectResumes ==
    /\ [][ResumeStepAt("210") =>
            \A id \in ProjectIds :
                (Resumable(id) /\ run.arg \in {ArgTrue, projects[id].project_name}) =>
                    (run'.info = id /\ run'.pc = "17")]_vars
    /\ [][ResumeStepAt("17") => run'.pc = "25"]_vars

\* ---------------------------------------------------------------- C18
\* the phases in which assets are generated, durations calculated or the
\* video composed
WorkPhases == {"Generating Core Assets", "Calculating Duration", "Generating Music",
               "Composing Video", "Calculating Duration for Music",
               "Regenerating Music", "Calculating Duration for Video",
               "Regenerating Video"}

\* C18: a project whose plan is null is never loaded (a load that names it
\* raises, a load by default does not return it), so no resume or regeneration
\* works on it, and no project with a null plan is ever in a phase of asset
\* generation, duration calculation or composition.
C18_NullPlanNeverLoaded ==
    /\ [](/\ run.info # 0 => ~projects[run.info].plan_json.null
          /\ \A id \in ProjectIds :
                projects[id].status \in WorkPhases => ~projects[id].plan_json.null)
    /\ [][(run.pc \in {"210", "87"} /\ run'.pc # "crashed") =>
            /\ \A id \in ProjectIds :
                  (projects[id] # NoRow /\ projects[id].plan_json.null
                   /\ run.arg = projects[id].project_name) => run'.pc = "236"
            /\ run'.info # 0 => ~projects[run'.info].plan_json.null]_vars

C18_Witness ==
    /\ run.pc = "236"
    /\ run.mode = "regenerate_video"
    /\ run.info = 0
    /\ \E id \in ProjectIds :
          /\ projects[id].status = "Failed"
          /\ projects[id].plan_json.null
          /\ run.arg = projects[id].project_name

\* ---------------------------------------------------------------- C19
Identity(row) == <<row.project_name, row.asset_directory, row.plan_json>>
Finalized(row) ==
    /\ ~row.plan_json.null
    /\ row.project_name[1] # "temp"
    /\ row.asset_directory # TempDirectory

\* C19: the name, the asset directory and the plan of a row change in one
\* step only, and at most once: the step of a new-prompt run that follows the
\* successful plan call, on a row not finalized yet and in the phase Planning;
\* it writes the three together.  Every row in a work phase or Completed is
\* finalized, and no step of a run, a resume, a regeneration or the failure
\* handler changes the three of a finalized row.
C19_FinalizedOnceThenImmutable ==
    /\ [](\A id \in ProjectIds :
            projects[id].status \in WorkPhases \cup {"Completed"} =>
                Finalized(projects[id]))
    /\ [][\A id \in ProjectIds :
            (projects[id] # NoRow /\ Identity(projects'[id]) # Identity(projects[id])) =>
                /\ ~Finalized(projects[id])
                /\ projects[id].plan_json.null
                /\ projects[id].status = "Planning"
                /\ run.mode = "prompt" /\ run.project_id = id
                /\ ~run.plan.null
                /\ projects'[id].plan_json = run.plan
                /\ Finalized(projects'[id])
                /\ projects'[id].status = "Planning"]_vars

C19_Witness ==
    /\ run.mode = "regenerate"
    /\ run.pc = "224"
    /\ run.pre_status = "Failed"
    /\ Finalized(projects[run.info])
    /\ projects[run.info].status = "Completed"

\* =========================================== composer.calculate_video_duration
\* Times are in milliseconds.  A WAV file is its frame count and frame rate.
MaxCalcWords == 2
SCENE_PAUSE_S == 1000
CHALLENGE_DURATION_S == 5000
REVEAL_DURATION_S == 2000
LEAD_IN == 500
REVEAL_MARGIN == 500

\* the speech files of the directory: 0 s, 1.2 s, 1.5 s, 2 s and 3 s of audio
WavFrames == {0, 28800, 36000, 48000, 72000}
Wavs == [frames : WavFrames, rate : {TTS_FRAMERATE}]
WordWavs == UNION {[1..n -> Wavs] : n \in 0..MaxCalcWords}

\* VideoComposer._get_wav_duration: frames / float(rate)
composer_get_wav_duration(wav) == (wav.frames * 1000) \div wav.rate

Max(a, b) == IF a >= b THEN a ELSE b

\* mutant: the reveal lasts as long as the word's audio and its margin
reveal_duration_no_minimum(word_duration) == word_duration + REVEAL_MARGIN

\* max(word_duration + 0.5, config.REVEAL_DURATION_S)
reveal_duration(word_duration) == Max(word_duration + REVEAL_MARGIN, REVEAL_DURATION_S)

\* the directory and the plan the call is made on
CalcInit ==
    /\ ProgramInit
    /\ nkeys = 1
    /\ \E intro \in Wavs, words \in WordWavs :
          calc = [pc |-> "idle", intro |-> intro, words |-> words,
                  i |-> 0, current_time |-> 0, result |-> -1]

\* lines 57-59: the intro is read and the clock set behind it
calculate_video_duration_intro ==
    /\ calc.pc = "idle"
    /\ calc' = [calc EXCEPT
                  !.pc = "loop",
                  !.current_time = LEAD_IN + composer_get_wav_duration(calc.intro)
                                       + SCENE_PAUSE_S]
    /\ UNCHANGED <<assetv, driverv, video>>

\* lines 60-65: one iteration of the loop over plan.word_pairs
calculate_video_duration_word ==
    /\ calc.pc = "loop"
    /\ calc.i < Len(calc.words)
    /\ LET word_duration == composer_get_wav_duration(calc.words[calc.i + 1]) IN
        calc' = [calc EXCEPT
                   !.i = @ + 1,
                   !.current_time = (@ + CHALLENGE_DURATION_S)
                                        + (reveal_duration(word_duration) + SCENE_PAUSE_S)]
    /\ UNCHANGED <<assetv, driverv, video>>

\* lines 66-67: the loop is over and current_time is returned
calculate_video_duration_return ==
    /\ calc.pc = "loop"
    /\ calc.i = Len(calc.words)
    /\ calc' = [calc EXCEPT !.pc = "returned", !.result = calc.current_time]
    /\ UNCHANGED <<assetv, driverv, video>>

CalcNext ==
    \/ calculate_video_duration_intro
    \/ calculate_video_duration_word
    \/ calculate_video_duration_return

CalcSpec == CalcInit /\ [][CalcNext]_vars

\* ---------------------------------------------------------------- C20
\* the sum over the words of challenge + max(w + margin, minimum reveal) + pause,
\* with the claim's numbers: 5 s, 0.5 s, 2 s, 1 s
RECURSIVE ClaimedWordsTime(_)
ClaimedWordsTime(w) ==
    IF w = <<>> THEN 0
    ELSE (5000 + Max(Head(w) + 500, 2000) + 1000) + ClaimedWordsTime(Tail(w))

WordLengths(c) == [k \in 1..Len(c.words) |-> composer_get_wav_duration(c.words[k])]

\* C20: for every intro length a and word lengths w_0..w_(n-1),
\* calculate_video_duration returns 0.5 + a + 1.0 + the sum over i of
\* (5 + max(w_i + 0.5, 2) + 1.0); an intro of 3.0 s and one word of 1.2 s
\* give 12.5 s.
C20_DurationFormula ==
    calc.pc = "returned" =>
        /\ calc.result = 500 + composer_get_wav_duration(calc.intro) + 1000
                             + ClaimedWordsTime(WordLengths(calc))
        /\ (composer_get_wav_duration(calc.intro) = 3000
            /\ WordLengths(calc) = <<1200>>) => calc.result = 12500

C20_Witness ==
    /\ calc.pc = "returned"
    /\ composer_get_wav_duration(calc.intro) = 3000
    /\ WordLengths(calc) = <<1200>>
    /\ calc.result = 12500

\* -------------------------------------------------- VideoComposer.create_video
\* word_audio_clip.set_start(reveal_start + 0.2)
REVEAL_AUDIO_DELAY == 200

\* AudioFileClip(path).duration, of the file _get_wav_duration reads
audio_clip_duration(wav) == (wav.frames * 1000) \div wav.rate

\* a clip of the composition: .set_start(start).set_duration(duration); scene
\* is the index of the word pair (-1: the intro), label the number shown
Clip(kind, scene, start, duration, label) ==
    [kind |-> kind, scene |-> scene, start |-> start, duration |-> duration,
     label |-> label]

ClipEnd(c) == c.start + c.duration

\* mutant: the countdown numbers are shown half a second each
countdown_clips_half(scene, challenge_start) ==
    {Clip("countdown", scene, challenge_start + j * 500, 500,
          (CHALLENGE_DURATION_S \div 1000) - j)
        : j \in 0..((CHALLENGE_DURATION_S \div 1000) - 1)}

\* lines 129-137: for j in range(CHALLENGE_DURATION_S): the number
\* CHALLENGE_DURATION_S - j is shown for one second from challenge_start + j
countdown_clips(scene, challenge_start) ==
    {Clip("countdown", scene, challenge_start + j * 1000, 1000,
          (CHALLENGE_DURATION_S \div 1000) - j)
        : j \in 0..((CHALLENGE_DURATION_S \div 1000) - 1)}

\* mutant: the reveal lasts as long as the word's audio and its margin
create_video_reveal_duration_no_minimum(word_duration) == word_duration + REVEAL_MARGIN

\* mutant: the reveal has no margin behind the word's audio
create_video_reveal_duration_no_margin(word_duration) == Max(word_duration, REVEAL_DURATION_S)

\* line 145: max(word_audio_clip.duration + 0.5, config.REVEAL_DURATION_S)
create_video_reveal_duration(word_duration) ==
    Max(word_duration + REVEAL_MARGIN, REVEAL_DURATION_S)

\* mutant: the reveal starts a pause after the challenge
reveal_start_after_pause(challenge_start) ==
    challenge_start + CHALLENGE_DURATION_S + SCENE_PAUSE_S

\* lines 138, 144: current_time += CHALLENGE_DURATION_S; reveal_start = current_time
reveal_start_of(challenge_start) == challenge_start + CHALLENGE_DURATION_S

\* lines 76-100: the intro; final_duration is what calculate_video_duration
\* returned for the same directory (main.py lines 30, 38)
create_video_intro ==
    /\ calc.pc = "returned"
    /\ video.pc = "idle"
    /\ LET intro_duration == audio_clip_duration(calc.intro) IN
        video' = [video EXCEPT
                    !.pc = "loop",
                    !.final_duration = calc.result,
                    !.current_time = LEAD_IN + intro_duration + SCENE_PAUSE_S,
                    !.audio_clips = {Clip("intro_audio", -1, LEAD_IN, intro_duration, 0)},
                    !.video_clips = {Clip("intro_text", -1, LEAD_IN, intro_duration, 0)}]
    /\ UNCHANGED <<assetv, driverv, calc>>

\* lines 105-156: one iteration of the loop over plan.word_pairs
create_video_word ==
    /\ video.pc = "loop"
    /\ video.i < Len(calc.words)
    /\ LET challenge_start == video.current_time
           word_duration == audio_clip_duration(calc.words[video.i + 1])
           reveal_start == reveal_start_of(challenge_start)
           reveal == create_video_reveal_duration(word_duration) IN
        video' = [video EXCEPT
                    !.i = @ + 1,
                    !.video_clips = @ \cup
                        {Clip("challenge_text", video.i, challenge_start,
                              CHALLENGE_DURATION_S, 0),
                         Clip("animated_bg", video.i, challenge_start,
                              CHALLENGE_DURATION_S, 0),
                         Clip("reveal_text", video.i, reveal_start, reveal, 0)}
                        \cup countdown_clips(video.i, challenge_start),
                    !.audio_clips = @ \cup
                        {Clip("word_audio", video.i, reveal_start + REVEAL_AUDIO_DELAY,
                              word_duration, 0)},
                    !.current_time = reveal_start + reveal + SCENE_PAUSE_S]
    /\ UNCHANGED <<assetv, driverv, calc>>

\* lines 158-181: the mix is cut to final_duration and the file written
create_video_write ==
    /\ video.pc = "loop"
    /\ video.i = Len(calc.words)
    /\ video' = [video EXCEPT !.pc = "written"]
    /\ UNCHANGED <<assetv, driverv, calc>>

VideoNext ==
    \/ CalcNext
    \/ create_video_intro
    \/ create_video_word
    \/ create_video_write

VideoSpec == CalcInit /\ [][VideoNext]_vars

\* ---------------------------------------------------------------- C21
\* the clips of one kind, and the clip of one kind of one scene
ClipsOf(clips, kind) == {c \in clips : c.kind = kind}
SceneClips(clips, kind, scene) == {c \in clips : c.kind = kind /\ c.scene = scene}

\* the reveal time one iteration of calculate_video_duration's loop adds
CalcRevealAdded == (calc.current_time' - calc.current_time) - 5000 - 1000

\* C21: in the duration calculation and in the schedule of create_video alike,
\* every scene's reveal lasts at least the minimum reveal duration (2 s), and
\* exactly the minimum whenever the word's audio is shorter than the minimum
\* less the margin (2 s - 0.5 s).
C21_RevealAtLeastMinimum ==
    /\ [][calc.i' = calc.i + 1 =>
            LET w == composer_get_wav_duration(calc.words[calc.i + 1]) IN
                /\ CalcRevealAdded >= 2000
                /\ w < 2000 - 500 => CalcRevealAdded = 2000]_vars
    /\ [](\A c \in ClipsOf(video.video_clips, "reveal_text") :
            /\ c.duration >= 2000
            /\ \A a \in SceneClips(video.audio_clips, "word_audio", c.scene) :
                  a.duration < 2000 - 500 => c.duration = 2000)

C21_Witness ==
    /\ video.pc = "written"
    /\ \E c \in ClipsOf(video.video_clips, "reveal_text") :
          /\ c.duration = 2000
          /\ \E a \in SceneClips(video.audio_clips, "word_audio", c.scene) :
                a.duration = 1200
    /\ \E c \in ClipsOf(video.video_clips, "reveal_text") : c.duration = 3500

\* ---------------------------------------------------------------- C22
\* the captions, countdown numbers and speech of the schedule
ScheduledClips ==
    {c \in video.video_clips \cup video.audio_clips :
        c.kind \in {"intro_text", "challenge_text", "reveal_text", "countdown",
                    "intro_audio", "word_audio"}}

\* C22: for the same audio lengths, the walk of create_video over the schedule
\* ends at an offset equal to the final duration calculate_video_duration
\* returned, and no caption, countdown or speech interval of the schedule ends
\* after the final duration.
C22_ScheduleEndsAtFinalDuration ==
    video.pc = "written" =>
        /\ video.current_time = video.final_duration
        /\ video.final_duration = calc.result
        /\ \A c \in ScheduledClips : ClipEnd(c) <= video.final_duration

C22_Witness ==
    /\ video.pc = "written"
    /\ Len(calc.words) = 2
    /\ video.current_time = video.final_duration
    /\ \E c \in ClipsOf(video.audio_clips, "word_audio") : c.duration = 3000
    /\ \E c \in ClipsOf(video.audio_clips, "word_audio") : c.duration = 1200
    /\ \E c \in ScheduledClips : ClipEnd(c) + 1000 = video.final_duration

\* ---------------------------------------------------------------- C23
Challenges == ClipsOf(video.video_clips, "challenge_text")
Reveals == ClipsOf(video.video_clips, "reveal_text")

\* two clips share some time
Overlap(c, d) == c.start < ClipEnd(d) /\ d.start < ClipEnd(c)

\* C23: the first challenge starts exactly the scene pause (1 s) after the
\* intro audio ends, each reveal starts exactly when its challenge ends, and
\* each following challenge starts exactly the scene pause after the previous
\* reveal ends: challenges and reveals never overlap and are separated by no
\* gap other than the scene pause.
C23_ScenesBackToBack ==
    /\ \A c \in Challenges, a \in ClipsOf(video.audio_clips, "intro_audio") :
          c.scene = 0 => c.start = ClipEnd(a) + 1000
    /\ \A c \in Challenges, r \in Reveals :
          /\ r.scene = c.scene => r.start = ClipEnd(c)
          /\ c.scene = r.scene + 1 => c.start = ClipEnd(r) + 1000
    /\ \A c \in Challenges \cup Reveals, d \in Challenges \cup Reveals :
          c # d => ~Overlap(c, d)
    /\ \A r \in Reveals : \E c \in Challenges : c.scene = r.scene
    /\ \A c \in Challenges :
          c.scene > 0 => \E r \in Reveals : r.scene = c.scene - 1

C23_Witness ==
    /\ video.pc = "written"
    /\ \E a \in ClipsOf(video.audio_clips, "intro_audio"), c0 \in Challenges,
          r0 \in Reveals, c1 \in Challenges, r1 \in Reveals :
          /\ a.duration = 3000
          /\ c0.scene = 0 /\ r0.scene = 0 /\ c1.scene = 1 /\ r1.scene = 1
          /\ c0.start = 4500
          /\ r0.start = 9500 /\ r0.duration = 3500
          /\ c1.start = 14000
          /\ r1.start = 19000

\* ---------------------------------------------------------------- C24
Countdowns(scene) == SceneClips(video.video_clips, "countdown", scene)

\* C24: for a challenge of duration D seconds at offset s the schedule holds
\* exactly D countdown intervals, each one second long; the j-th (from 0)
\* starts at s + j and is labelled D - j, so that the intervals tile
\* [s, s + D) without gap or overlap.
C24_CountdownTilesChallenge ==
    \A c \in Challenges :
        LET D == c.duration \div 1000
            K == Countdowns(c.scene) IN
            /\ Cardinality(K) = D
            /\ \A k \in K : k.duration = 1000
            /\ \A j \in 0..(D - 1) :
                  \E k \in K : k.start = c.start + j * 1000 /\ k.label = D - j
            /\ \A k \in K : c.start <= k.start /\ ClipEnd(k) <= ClipEnd(c)
            /\ \A k \in K, l \in K : k # l => ~Overlap(k, l)

C24_Witness ==
    /\ video.pc = "written"
    /\ \E c \in Challenges :
          /\ c.start = 4500 /\ c.duration = 5000
          /\ Cardinality(Countdowns(c.scene)) = 5
          /\ \E k \in Countdowns(c.scene) : k.start = 4500 /\ k.label = 5
          /\ \E k \in Countdowns(c.scene) : k.start = 8500 /\ k.label = 1

\* ---------------------------------------------------------------- C25
\* the step got a plan one of whose languages is outside the supported set
UnsupportedPlanParsed(r) ==
    /\ r.op = "plan"
    /\ \E language \in {r.source_language, r.target_language} :
          lower(language) \notin TTS_SUPPORTED_LANGUAGES

\* the effects that are a request for, or a write of, an asset
AssetEffects(effects) ==
    {e \in effects : e.kind \in {"request", "write"} /\ e.path \in Artifacts}

\* C25: a plan whose source or target language is outside the supported set
\* makes planning fail with a fatal error before the project is finalized and
\* before any asset phase: the run goes from the planner to main's handler and
\* ends there, with the row's name, directory and plan as they were and no
\* speech, image or music request and no file written.
C25_UnsupportedLanguageFailsPlanning ==
    /\ [][(run.pc = "198" /\ UnsupportedPlanParsed(reply')) =>
            /\ run'.pc = "236" /\ run'.raised
            /\ run'.plan = NoPlan
            /\ projects' = projects
            /\ disk' = disk
            /\ AssetEffects(eff') = {}]_vars
    /\ [][(run.pc = "236" /\ UnsupportedPlanParsed(reply)) =>
            /\ run'.pc \in {"returned", "crashed"}
            /\ Identity(projects'[run.project_id]) = Identity(projects[run.project_id])
            /\ projects'[run.project_id].plan_json.null
            /\ disk' = disk
            /\ eff' = {}]_vars

C25_Witness ==
    /\ run.pc = "236"
    /\ run.mode = "prompt"
    /\ reply.op = "plan"
    /\ reply.source_language = "Spanish"
    /\ reply.target_language = "klingon"
    /\ projects[run.project_id].plan_json.null
    /\ projects[run.project_id].status = "Planning"

\* ---------------------------------------------------------------- C26
\* the step is a call of generate_music_asset in which the generation failed
MusicFailedStep ==
    /\ run.pc \in MusicLines
    /\ reply'.op = "music"
    /\ reply'.result \in {"failed", "failed_left"}

\* C26 as claimed: if music generation fails for any reason, no music file
\* remains on disk, no exception escapes generate_music_asset, and the
\* pipeline proceeds to Composing Video.
C26_FailedMusicLeavesNoFile ==
    [][MusicFailedStep =>
        /\ MusicPath \notin disk'[ProjectId(run)]
        /\ ~run'.raised
        /\ run.pc = "34" => run'.pc = "37"]_vars

\* C26, amended: if music generation fails for any reason, no exception
\* escapes generate_music_asset and the pipeline proceeds to Composing Video,
\* from where it can reach Completed without music; no music file remains on
\* disk unless the removal of the file a failed write left fails too.
C26_FailedMusicIsSkipped ==
    /\ [][MusicFailedStep =>
            /\ reply'.result = "failed" => MusicPath \notin disk'[ProjectId(run)]
            /\ ~run'.raised
            /\ run.pc = "34" => run'.pc = "37"]_vars
    /\ [][run.pc = "37" =>
            \/ projects'[ProjectId(run)].status = "Composing Video" /\ run'.pc = "38"
            \/ run'.pc = "crashed"]_vars

C26_Witness ==
    /\ run.pc = "224"
    /\ run.mode = "prompt"
    /\ run.trace = PhaseOrder
    /\ projects[run.project_id].status = "Completed"
    /\ FinalVideoPath \in disk[run.project_id]
    /\ MusicPath \notin disk[run.project_id]

\* ---------------------------------------------------------------- C27
\* the step is a call of calculate_video_duration made while a speech file of
\* the plan is missing or cannot be read
CalcOnBadAudioStep ==
    /\ run.pc \in CalcLines
    /\ reply'.op = "calc"
    /\ \/ ~(SpeechPaths(run.plan) \subseteq disk[ProjectId(run)])
       \/ reply'.result = "unreadable"

MusicOrVideoPhases ==
    {"Generating Music", "Composing Video", "Regenerating Music", "Regenerating Video"}

\* C27: if the intro audio or any word audio is missing or unreadable when the
\* duration is calculated, the calculation fails fatally and returns no
\* duration, and in that run no music generation and no composition is
\* started: none before the calculation, and the run ends in main's handler
\* without a further request, write or phase.
C27_BadAudioStopsBeforeMusic ==
    /\ [][CalcOnBadAudioStep =>
            /\ run'.pc = "236" /\ run'.raised
            /\ \A k \in 1..Len(run.trace) : run.trace[k] \notin MusicOrVideoPhases
            /\ eff' = {} /\ disk' = disk /\ projects' = projects]_vars
    /\ [][(run.pc = "236" /\ reply.op = "calc") =>
            /\ run'.pc \in {"returned", "crashed"}
            /\ eff' = {} /\ disk' = disk
            /\ \A id \in ProjectIds :
                  projects'[id].status \in {projects[id].status, "Failed"}]_vars

C27_Witness ==
    /\ run.pc = "236"
    /\ run.mode = "regenerate_music"
    /\ reply = Answered("calc", "missing")
    /\ IntroPath \in disk[ProjectId(run)]
    /\ BackgroundPath \in disk[ProjectId(run)]
    /\ run.plan.nwords = 1
    /\ WordPath(0) \notin disk[ProjectId(run)]

\* ---------------------------------------------------------------- C28
\* C28: the music call runs under the retry protocol of the other call kinds:
\* a quota-exhausted outcome on a music request advances the credential pool
\* by one and, while a credential remains, the request is made again.
C28_MusicQuotaRetried ==
    [][(call.op = "music" /\ RequestStep /\ QuotaExhausted(last_o')
            /\ current_key_index + 1 < nkeys) =>
        /\ current_key_index' = current_key_index + 1
        /\ client' = current_key_index + 1
        /\ call'.op = "music"]_vars

\* ---------------------------------------------------------------- C29
\* the step is the one in which a music call writes music.wav
MusicWrittenStep ==
    /\ call.op = "music"
    /\ ~files[MusicPath].exists
    /\ files'[MusicPath].exists

C30_ResumeCompletesOnlyWholeVideo ==
    [][(run.mode = "resume" /\ run.pc = "218"
            /\ projects'[run.project_id].status = "Completed") =>
        /\ FinalVideoPath \in disk[run.project_id]
        /\ run.project_id \notin truncated]_vars

\* ---------------------------------------------------------------- C31
\* C31: in every reachable state, also in the middle of a run, a project whose
\* persisted status is Completed has its final video file in its asset
\* directory.
C31_CompletedHasFinalVideo ==
    \A id \in ProjectIds :
        (projects[id] # NoRow /\ projects[id].status = "Completed") =>
            FinalVideoPath \in disk[id]

\* ---------------------------------------------------------------- C32
\* the step is a composition that writes the final video with a music bed
RenderWithMusicStep ==
    /\ run.pc \in VideoLines
    /\ Written(FinalVideoPath) \in eff'
    /\ MusicPath \in disk[ProjectId(run)]

\* C32: every render that includes a music bed uses a music file that was
\* generated for the final duration the render uses; a regeneration that
\* changes the speech durations never leads to a render with music sized for
\* an older duration.
C32_RenderUsesMusicOfItsDuration ==
    [][RenderWithMusicStep => ProjectId(run) \notin outdated]_vars

\* ---------------------------------------------------------------- C33
\* the image service answered without error, with parts none of which holds
\* image data
NoImagePayload(o) == ~o.exc /\ o.payload = "text"

\* C33: an image response that arrives without transport error but carries no
\* usable image payload is classified empty-content: the pool is advanced and
\* the image request is made again while credentials remain.
C33_ImageWithoutPayloadRetried ==
    [][(call.op = "image" /\ RequestStep /\ NoImagePayload(last_o')
            /\ call.attempt < nkeys - 1 /\ current_key_index + 1 < nkeys) =>
        /\ current_key_index' = current_key_index + 1
        /\ call'.op = "image"
        /\ call'.attempt = call.attempt + 1]_vars

\* ---------------------------------------------------------------- C34
\* run_project is about to write the status of line 29, of line 37
EntersCalculatingDuration == run.pc = "29" /\ run'.pc = "30"
EntersComposingVideo == run.pc = "37" /\ run'.pc = "38"

\* the files calculate_video_duration and create_video read
CoreInputs(plan) == SpeechPaths(plan) \cup {BackgroundPath}

\* the music attempt of the step before has returned
MusicAttemptFinished == reply.op = "music"

\* C34 as claimed: in run_project, Calculating Duration is entered only when
\* the intro, every word file and the background exist, and Composing Video
\* only after the music attempt has finished with the music file fully
\* written or absent.
C34_PhasesEnteredWithInputsReady ==
    /\ [][EntersCalculatingDuration =>
            CoreInputs(run.plan) \subseteq disk[ProjectId(run)]]_vars
    /\ [][EntersComposingVideo =>
            /\ MusicAttemptFinished
            /\ reply.result \in {"written", "skipped", "failed"}
            /\ reply.result = "failed" => MusicPath \notin disk[ProjectId(run)]]_vars

\* C34, amended: in run_project, Calculating Duration is entered only when the
\* intro, every word file and the background exist; Composing Video is entered
\* only after the music attempt has returned, with the music file written,
\* absent, or left in part when its removal failed; and neither the
\* calculation nor the composition starts while a speech file or the
\* background it reads is missing.
C34_PhasesEnteredAfterInputs ==
    /\ [][EntersCalculatingDuration =>
            CoreInputs(run.plan) \subseteq disk[ProjectId(run)]]_vars
    /\ [][EntersComposingVideo =>
            /\ MusicAttemptFinished
            /\ reply.result \in {"written", "skipped", "failed_left"}
                  <=> MusicPath \in disk[ProjectId(run)]
            /\ CoreInputs(run.plan) \subseteq disk[ProjectId(run)]]_vars
    /\ [][(run.pc \in {"30", "38"} /\ run'.pc # "crashed") =>
            CoreInputs(run.plan) \subseteq disk[ProjectId(run)]]_vars

C34_Witness ==
    /\ run.pc = "38"
    /\ run.mode = "resume"
    /\ run.plan.nwords = MaxWords
    /\ CoreInputs(run.plan) \subseteq disk[ProjectId(run)]
    /\ MusicPath \notin disk[ProjectId(run)]
    /\ projects[ProjectId(run)].status = "Composing Video"

\* ---------------------------------------------------------------- C35
\* the rows in S, most recently updated first
LatestOf(S) == SelectSeq(recent, LAMBDA id : id \in S)
FailedProjects == {id \in ProjectIds : projects[id] # NoRow /\ projects[id].status = "Failed"}
\* the Failed rows that still carry the temporary name given at creation, or a
\* final name the pattern temp_% matches as well
FailedTempNamed == {id \in FailedProjects : like_temp(projects[id].project_name)}
\* a resume run with no project name loads its project
BareResumeStep == ResumeStepAt("210") /\ run.arg = ArgTrue

SingleAssetModes == {"regenerate_background", "regenerate_intro",
                     "regenerate_words", "regenerate_word_0"}
\* the artifacts a single-asset regeneration is about
Targets(mode, plan) ==
    CASE mode = "regenerate_background" -> {BackgroundPath}
      [] mode = "regenerate_intro" -> {IntroPath}
      [] mode = "regenerate_words" -> {WordPath(i) : i \in 0..(plan.nwords - 1)}
      [] mode = "regenerate_word_0" -> {WordPath(0)} \cap SpeechPaths(plan)
\* a step of a single-asset regeneration that has loaded its project
SingleAssetStep == run.mode \in SingleAssetModes /\ run.info # 0

\* C36: a single-asset regeneration (background, intro, words, word 0)
\* deletes and writes only the artifacts it targets, each target is deleted
\* before it is written again, and every other artifact (the final video
\* included), every other project's files and every project's persisted
\* status and plan stay as they were, whether the run returns or fails; when
\* the run returns, every target is on disk.
C36_SingleAssetRegenerationFrame ==
    /\ [][SingleAssetStep =>
            /\ projects' = projects
            /\ recent' = recent
            /\ \A e \in eff' : e.path \in Targets(run.mode, run.plan)
            /\ \A id \in ProjectIds :
                  \A path \in disk[id] \cup disk'[id] :
                      (path \in disk[id]) # (path \in disk'[id]) =>
                          (id = run.info /\ path \in Targets(run.mode, run.plan))
            /\ (FinalVideoPath \in disk'[run.info]) = (FinalVideoPath \in run.pre)]_vars
    /\ [][(SingleAssetStep /\ run.pc = "158" /\ run'.pc = "224") =>
            /\ Targets(run.mode, run.plan) \subseteq disk[run.info]
            /\ disk[run.info] \ Targets(run.mode, run.plan) =
                  run.pre \ Targets(run.mode, run.plan)
            /\ projects[run.info].status = run.pre_status]_vars

\* an intro regeneration has failed after deleting the intro of a Completed
\* project: the status and the final video are as before
C36_Witness ==
    /\ run.mode = "regenerate_intro"
    /\ run.pc = "236"
    /\ run.pre_status = "Completed"
    /\ projects[run.info].status = "Completed"
    /\ IntroPath \in run.pre
    /\ IntroPath \notin disk[run.info]
    /\ FinalVideoPath \in disk[run.info]

\* ---------------------------------------------------------------- C37
\* the request of this step is of a speech, image or plan call and came back
\* quota-exhausted or without content
TransientStep ==
    /\ RequestStep
    /\ call.op \in RetriedOps
    /\ transients' = transients + 1

\* C37: over a whole process with N credentials at most N speech, image and
\* plan requests end in a transient outcome (quota-exhausted or empty-content):
\* each such outcome advances the shared pool by one or ends the process, and
\* a call that starts with the pool at index k makes at most N - k requests.
C37_TransientOutcomesAtMostKeys ==
    /\ [](transients <= nkeys)
    /\ [][TransientStep =>
            \/ current_key_index' = current_key_index + 1
            \/ pc' = "failed"]_vars
    /\ [][(RequestStep /\ call.op \in RetriedOps) =>
            LET k == current_key_index - call.attempt IN
            /\ k >= 0
            /\ call.reqs + 1 <= nkeys - k]_vars

\* three transient outcomes over two calls of one process have used up a pool
\* of three credentials
C37_Witness ==
    /\ nkeys = MaxKeys
    /\ transients = nkeys
    /\ pc = "failed"
    /\ ret.op = "image"
    /\ ret.reqs = 2
    /\ ret.cause = "pool_exhausted"

\* ---------------------------------------------------------------- C38
\* the step ends a call that began with the pool at index 0 and whose every
\* request, this one included, came back quota-exhausted
AllQuotaCallEnds ==
    /\ RequestStep
    /\ call.op \in RetriedOps
    /\ call.attempt = current_key_index
    /\ call.allq
    /\ QuotaExhausted(last_o')
    /\ call' = NoCall

\* C38: with N credentials and the pool at index 0, a call whose every attempt
\* is quota-exhausted makes N requests and raises; the plan call advances the
\* pool after its last attempt and ends with the index at N through the pool's
\* own exhaustion error, and its trailing 'all keys hit quota' error is never
\* raised; the speech or image call does not advance after its last attempt
\* and ends with the index at N - 1.
C38_PlanAdvancesPastLastKey ==
    /\ [][AllQuotaCallEnds =>
            /\ ret'.status = "raise"
            /\ ret'.reqs = nkeys
            /\ IF call.op = "plan"
               THEN /\ current_key_index' = nkeys
                    /\ current_key_index' = current_key_index + 1
                    /\ ret'.cause = "pool_exhausted"
               ELSE /\ current_key_index' = nkeys - 1
                    /\ current_key_index' = current_key_index
                    /\ ret'.cause = "keys_exhausted"]_vars
    /\ [](ret.cause # "all_quota")

C38_Witness ==
    /\ nkeys = MaxKeys
    /\ pc = "failed"
    /\ ret.op = "plan"
    /\ ret.allq
    /\ ret.reqs = nkeys
    /\ ret.cause = "pool_exhausted"
    /\ current_key_index = nkeys
    /\ transients = nkeys

\* ---------------------------------------------------------------- C39
WordAudios == ClipsOf(video.audio_clips, "word_audio")

\* C39: every word's speech interval lies inside the interval of its own
\* reveal caption: it starts 0.2 s after the reveal starts and ends no later
\* than the reveal caption ends, hence before the next scene's challenge
\* starts; and the intro caption starts and ends together with the intro audio.
C39_SpeechInsideItsReveal ==
    /\ \A a \in WordAudios :
          /\ Cardinality(SceneClips(video.video_clips, "reveal_text", a.scene)) = 1
          /\ \A r \in SceneClips(video.video_clips, "reveal_text", a.scene) :
                /\ a.start = r.start + 200
                /\ ClipEnd(a) <= ClipEnd(r)
          /\ \A c \in Challenges : c.scene = a.scene + 1 => ClipEnd(a) < c.start
    /\ video.pc # "idle" =>
          /\ Cardinality(ClipsOf(video.audio_clips, "intro_audio")) = 1
          /\ Cardinality(ClipsOf(video.video_clips, "intro_text")) = 1
          /\ \A a \in ClipsOf(video.audio_clips, "intro_audio") :
                \A t \in ClipsOf(video.video_clips, "intro_text") :
                    t.start = a.start /\ ClipEnd(t) = ClipEnd(a)

\* a word longer than the minimum reveal ends 0.3 s before its caption does,
\* and the next challenge follows
C39_Witness ==
    /\ video.pc = "written"
    /\ \E a \in WordAudios, r \in Reveals, c \in Challenges :
          /\ a.scene = 0 /\ r.scene = 0 /\ c.scene = 1
          /\ a.duration = 3000
          /\ ClipEnd(a) = ClipEnd(r) - 300
          /\ c.start = ClipEnd(r) + 1000
    /\ \E t \in ClipsOf(video.video_clips, "intro_text") : t.duration > 0

\* ---------------------------------------------------------------- C40
\* a new-prompt or resume run that has created or loaded its project
RunHasProject ==
    /\ Running
    /\ run.mode \in {"prompt", "resume"}
    /\ run.project_id # 0

\* C40: when every service request returns, every new-prompt or resume run
\* that has created or loaded a project terminates (unless the process is
\* killed), and when main returns the project's status is Completed or Failed,
\* never an intermediate phase.
C40_RunEndsCompletedOrFailed ==
    /\ RunHasProject ~> (run.pc \in {"returned", "crashed"})
    /\ [][(RunHasProject /\ run'.pc = "returned") =>
            projects'[run.project_id].status \in {"Completed", "Failed"}]_vars

\* a run has failed after the plan was saved and an asset written, and main
\* has returned with the project Failed
C40_Witness ==
    /\ run.pc = "returned"
    /\ run.raised
    /\ \E id \in ProjectIds :
          /\ projects[id] # NoRow
          /\ projects[id].status = "Failed"
          /\ ~projects[id].plan_json.null
          /\ IntroPath \in disk[id]
          /\ FinalVideoPath \notin disk[id]
====
